---- MODULE Spec2Model ----
(***************************************************************************)
(* Model of audio/out/ao_coreaudio_utils.c (mpv, CoreAudio helpers):       *)
(*   - ca_change_format: the asynchronous format switcher, one step per    *)
(*     hardware request, interleaved with the framework's listener thread; *)
(*   - ca_asbd_better and the pairwise reduction of a candidate list.      *)
(***************************************************************************)
EXTENDS Integers, Sequences, FiniteSets, TLC

VARIABLES
    \* ---- ca_change_format and the hardware it talks to ----
    pc,             \* position of the control thread inside ca_change_format
    sel,            \* parameter sel: the format property to get/set
    new_format,     \* parameter new_format
    actual_format,  \* local actual_format (NoFormat until CA_GET fills it)
    fmt_changed,    \* local volatile int fmt_changed
    j,              \* loop counter of the polling loop
    ret,            \* return value: "none" while running, then "true"/"false"
    hw,             \* hardware stream: format property value per selector
    hw0,            \* the hardware formats at the time of the call
    pending,        \* a successful CA_SET the hardware has not applied yet
    listener,       \* the registered property listener, or NoListener
    requests,       \* hardware requests issued so far, in order
    sleeps,         \* number of mp_sleep_us(10000) calls performed
    log,            \* messages logged by MP_ERR / MP_WARN / CHECK_CA_WARN
    notified,       \* a notification for the subscribed property arrived
                    \* while the loop was polling with budget left
    dangling_write, \* the callback wrote through a pointer to a dead frame
    \* ---- format comparator and its caller's reduction ----
    target,         \* the requested descriptor
    cands,          \* the candidate list offered by the hardware
    best,           \* the caller's running winner
    idx,            \* number of candidates consumed by the reduction
    fst,            \* arguments and result of the last ca_asbd_better call
    snd,
    res,
    \* ---- ca_asbd_best applied to a pair of descriptors ----
    bt,             \* argument target
    bm,             \* argument matchee
    bres,           \* ca_asbd_best(bt, bm), "none" before the call
    brev,           \* ca_asbd_best(bm, bt), "none" before the call
    \* ---- format codec ----
    mp_format,      \* the sample format handed to ca_make_asbd
    rate,           \* the rate handed to ca_make_asbd
    channels,       \* the channel count handed to ca_make_asbd
    asbd,           \* result of ca_make_asbd (NoFormat before the call)
    decoded,        \* result of ca_make_mp_format (-1 before the call)
    \* ---- channel layout resolver ----
    layouts,        \* the layouts handed to ca_bitmaps_from_layouts
    li,             \* number of layouts processed by its loop
    bitmaps,        \* the output array, of length *n_bitmaps
    \* ---- a listener called with a caller-chosen context ----
    cb_data,        \* the context pointer: NULL or the address of cb_flag
    cb_flag,        \* the int the context points to
    cb_addrs,       \* the address array of the latest invocation
    \* ---- ca_disable_mixing / ca_enable_mixing and their device ----
    mix_pc,         \* "start", "disabled" (after disable), "enabled"
    mix_has,        \* the device has kAudioDevicePropertySupportsMixing
    mix_val,        \* the device's value of that property
    mix_changed,    \* *changed as left by ca_disable_mixing ("none" before)
    mix_dreq,       \* hardware requests of the ca_disable_mixing call
    mix_derr,       \* its return value
    mix_arg,        \* the changed argument ca_enable_mixing was called with
    mix_ereq,       \* hardware requests of the ca_enable_mixing call
    mix_eerr,       \* its return value
    mix_round       \* number of disable/enable sequences started

swvars  == <<pc, sel, new_format, actual_format, fmt_changed, j, ret, hw, hw0,
             pending, listener, requests, sleeps, log, notified,
             dangling_write>>
cmpvars == <<target, cands, best, idx, fst, snd, res>>
bestvars  == <<bt, bm, bres, brev>>
codecvars == <<mp_format, rate, channels, asbd, decoded>>
layvars   == <<layouts, li, bitmaps>>
cbvars    == <<cb_data, cb_flag, cb_addrs>>
mixvars   == <<mix_pc, mix_has, mix_val, mix_changed, mix_dreq, mix_derr,
               mix_arg, mix_ereq, mix_eerr, mix_round>>
vars    == <<swvars, cmpvars, bestvars, codecvars, layvars, cbvars, mixvars>>
\* everything but the variables of ca_change_format
nonsw   == <<cmpvars, bestvars, codecvars, layvars, cbvars, mixvars>>

(***************************************************************************)
(* Bounds                                                                  *)
(***************************************************************************)
MaxAddrs == 2       \* longest address array handed to the listener
MaxCands == 4       \* longest candidate list reduced by the caller
MaxLayouts == 3     \* longest layout array handed to ca_bitmaps_from_layouts
MaxRounds == 3      \* disable/enable sequences run on one device

(***************************************************************************)
(* Stream format descriptors                                               *)
(***************************************************************************)
kAudioFormatFlagIsFloat         == 1
kAudioFormatFlagIsBigEndian     == 2
kAudioFormatFlagIsSignedInteger == 4
kAudioFormatFlagIsPacked        == 8
kAudioFormatFlagIsAlignedHigh   == 16
kAudioFormatFlagIsNonInterleaved == 32
kAudioFormatFlagIsNonMixable    == 64

\* a | b and a & b on non-negative integers
RECURSIVE BitOr(_, _)
BitOr(a, b) ==
    IF a = 0 THEN b
    ELSE IF b = 0 THEN a
    ELSE (IF a % 2 = 1 \/ b % 2 = 1 THEN 1 ELSE 0)
            + 2 * BitOr(a \div 2, b \div 2)

RECURSIVE BitAnd(_, _)
BitAnd(a, b) ==
    IF a = 0 \/ b = 0 THEN 0
    ELSE (IF a % 2 = 1 /\ b % 2 = 1 THEN 1 ELSE 0)
            + 2 * BitAnd(a \div 2, b \div 2)

ASBD(r, c, b, f) ==
    [mSampleRate |-> r, mFormatID |-> "lpcm", mChannelsPerFrame |-> c,
     mBitsPerChannel |-> b, mFormatFlags |-> f]

NoFormat == ASBD(0, 0, 0, 0)

\* (x & flag) for a single-bit flag
FlagAnd(x, flag) == flag * ((x \div flag) % 2)

\* ca_match_fflags comparing every flag bit
ca_match_fflags_exact(t, m) == t = m

ca_match_fflags(t, m) ==
    /\ FlagAnd(t, kAudioFormatFlagIsFloat) = FlagAnd(m, kAudioFormatFlagIsFloat)
    /\ FlagAnd(t, kAudioFormatFlagIsSignedInteger)
          = FlagAnd(m, kAudioFormatFlagIsSignedInteger)
    /\ FlagAnd(t, kAudioFormatFlagIsBigEndian)
          = FlagAnd(m, kAudioFormatFlagIsBigEndian)

ca_asbd_matches(t, m) == t.mFormatID = m.mFormatID

\* ca_asbd_best without the comparison of mBitsPerChannel
ca_asbd_best_nobits(t, m) ==
    /\ ca_asbd_matches(t, m)
    /\ t.mSampleRate = m.mSampleRate
    /\ t.mChannelsPerFrame = m.mChannelsPerFrame
    /\ ca_match_fflags(t.mFormatFlags, m.mFormatFlags)

ca_asbd_best(t, m) ==
    /\ ca_asbd_matches(t, m)
    /\ t.mBitsPerChannel = m.mBitsPerChannel
    /\ t.mSampleRate = m.mSampleRate
    /\ t.mChannelsPerFrame = m.mChannelsPerFrame
    /\ ca_match_fflags(t.mFormatFlags, m.mFormatFlags)

(***************************************************************************)
(* Format comparator                                                       *)
(***************************************************************************)
\* ca_asbd_better preferring snd when snd is below the target rate
ca_asbd_better_downsample(t, a, b) ==
    IF a.mSampleRate = 0 THEN 1
    ELSE IF b.mSampleRate = 0 THEN -1
    ELSE IF /\ a.mChannelsPerFrame = t.mChannelsPerFrame
            /\ b.mChannelsPerFrame # t.mChannelsPerFrame THEN -1
    ELSE IF /\ a.mChannelsPerFrame # t.mChannelsPerFrame
            /\ b.mChannelsPerFrame = t.mChannelsPerFrame THEN 1
    ELSE IF a.mSampleRate < t.mSampleRate THEN 1
    ELSE IF b.mSampleRate < t.mSampleRate THEN 1
    ELSE IF a.mSampleRate > t.mSampleRate THEN 1
    ELSE -1

\* ca_asbd_better without the two channel-count tests
ca_asbd_better_nochannels(t, a, b) ==
    IF a.mSampleRate = 0 THEN 1
    ELSE IF b.mSampleRate = 0 THEN -1
    ELSE IF a.mSampleRate < t.mSampleRate THEN 1
    ELSE IF b.mSampleRate < t.mSampleRate THEN -1
    ELSE IF a.mSampleRate > t.mSampleRate THEN 1
    ELSE -1

\* ca_asbd_better without the test for an uninitialized snd
ca_asbd_better_nosndinit(t, a, b) ==
    IF a.mSampleRate = 0 THEN 1
    ELSE IF /\ a.mChannelsPerFrame = t.mChannelsPerFrame
            /\ b.mChannelsPerFrame # t.mChannelsPerFrame THEN -1
    ELSE IF /\ a.mChannelsPerFrame # t.mChannelsPerFrame
            /\ b.mChannelsPerFrame = t.mChannelsPerFrame THEN 1
    ELSE IF a.mSampleRate < t.mSampleRate THEN 1
    ELSE IF b.mSampleRate < t.mSampleRate THEN -1
    ELSE IF a.mSampleRate > t.mSampleRate THEN 1
    ELSE -1

\* ca_asbd_better whose last test is >= instead of >
ca_asbd_better_geq(t, a, b) ==
    IF a.mSampleRate = 0 THEN 1
    ELSE IF b.mSampleRate = 0 THEN -1
    ELSE IF /\ a.mChannelsPerFrame = t.mChannelsPerFrame
            /\ b.mChannelsPerFrame # t.mChannelsPerFrame THEN -1
    ELSE IF /\ a.mChannelsPerFrame # t.mChannelsPerFrame
            /\ b.mChannelsPerFrame = t.mChannelsPerFrame THEN 1
    ELSE IF a.mSampleRate < t.mSampleRate THEN 1
    ELSE IF b.mSampleRate < t.mSampleRate THEN -1
    ELSE IF a.mSampleRate >= t.mSampleRate THEN 1
    ELSE -1

\* 1: snd is better, -1: fst is better
ca_asbd_better(t, a, b) ==
    IF a.mSampleRate = 0 THEN 1
    ELSE IF b.mSampleRate = 0 THEN -1
    ELSE IF /\ a.mChannelsPerFrame = t.mChannelsPerFrame
            /\ b.mChannelsPerFrame # t.mChannelsPerFrame THEN -1
    ELSE IF /\ a.mChannelsPerFrame # t.mChannelsPerFrame
            /\ b.mChannelsPerFrame = t.mChannelsPerFrame THEN 1
    ELSE IF a.mSampleRate < t.mSampleRate THEN 1
    ELSE IF b.mSampleRate < t.mSampleRate THEN -1
    ELSE IF a.mSampleRate > t.mSampleRate THEN 1
    ELSE -1

\* the caller's use of the result: keep fst on -1, take snd on 1
Pick(t, a, b) == IF ca_asbd_better(t, a, b) = 1 THEN b ELSE a

RECURSIVE ReduceFrom(_, _, _, _)
ReduceFrom(t, b, list, i) ==
    IF i > Len(list) THEN b
    ELSE ReduceFrom(t, Pick(t, b, list[i]), list, i + 1)

\* the winner of a non-empty candidate list
Reduce(t, list) == ReduceFrom(t, list[1], list, 2)

Rates == {0, 44100, 48000, 96000, 192000}
ChannelCounts == {2, 6}
Targets == { ASBD(r, 2, 16, 12) : r \in {48000, 96000} }
Candidates == { ASBD(r, c, 16, 12) : r \in Rates, c \in ChannelCounts }
CandLists == UNION { [1..n -> Candidates] : n \in 1..MaxCands }

(***************************************************************************)
(* Format codec                                                            *)
(***************************************************************************)
\* sample format bit fields of audio/format.h
AF_FORMAT_UNKNOWN    == 0
AF_FORMAT_BE         == 0
AF_FORMAT_LE         == 1
AF_FORMAT_END_MASK   == 1
AF_FORMAT_SI         == 0
AF_FORMAT_US         == 2
AF_FORMAT_SIGN_MASK  == 2
AF_FORMAT_8BIT       == 0
AF_FORMAT_16BIT      == 8
AF_FORMAT_24BIT      == 16
AF_FORMAT_32BIT      == 24
AF_FORMAT_BITS_MASK  == 56
AF_FORMAT_I          == 0
AF_FORMAT_F          == 512
AF_FORMAT_POINT_MASK == 512

af_fmt2bits(format) ==
    LET b == BitAnd(format, AF_FORMAT_BITS_MASK)
    IN  IF b = AF_FORMAT_8BIT THEN 8
        ELSE IF b = AF_FORMAT_16BIT THEN 16
        ELSE IF b = AF_FORMAT_24BIT THEN 24
        ELSE IF b = AF_FORMAT_32BIT THEN 32
        ELSE 0

af_bits_to_mask(bits) ==
    IF bits = 8 THEN AF_FORMAT_8BIT
    ELSE IF bits = 16 THEN AF_FORMAT_16BIT
    ELSE IF bits = 24 THEN AF_FORMAT_24BIT
    ELSE IF bits = 32 THEN AF_FORMAT_32BIT
    ELSE 0

ca_make_asbd(format, r, c) ==
    LET bits == af_fmt2bits(format)
        f0 == kAudioFormatFlagIsPacked
        f1 == IF BitAnd(format, AF_FORMAT_POINT_MASK) = AF_FORMAT_F
              THEN BitOr(f0, kAudioFormatFlagIsFloat) ELSE f0
        f2 == IF BitAnd(format, AF_FORMAT_SIGN_MASK) = AF_FORMAT_SI
              THEN BitOr(f1, kAudioFormatFlagIsSignedInteger) ELSE f1
        f3 == IF BitAnd(format, AF_FORMAT_END_MASK) = AF_FORMAT_BE
              THEN BitOr(f2, kAudioFormatFlagIsBigEndian) ELSE f2
    IN  [mSampleRate |-> r, mFormatID |-> "lpcm", mChannelsPerFrame |-> c,
         mBitsPerChannel |-> bits, mFormatFlags |-> f3,
         mFramesPerPacket |-> 1,
         mBytesPerPacket |-> 1 * c * (bits \div 8),
         mBytesPerFrame |-> 1 * c * (bits \div 8)]

\* ca_make_mp_format with the two endianness results exchanged
ca_make_mp_format_swapend(d) ==
    LET flags == d.mFormatFlags
        g0 == BitOr(AF_FORMAT_UNKNOWN, af_bits_to_mask(d.mBitsPerChannel))
        g1 == IF FlagAnd(flags, kAudioFormatFlagIsFloat) # 0
              THEN BitOr(g0, AF_FORMAT_F)
              ELSE IF FlagAnd(flags, kAudioFormatFlagIsSignedInteger) # 0
                   THEN BitOr(BitOr(g0, AF_FORMAT_I), AF_FORMAT_SI)
                   ELSE BitOr(BitOr(g0, AF_FORMAT_I), AF_FORMAT_US)
    IN  IF FlagAnd(flags, kAudioFormatFlagIsBigEndian) # 0
        THEN BitOr(g1, AF_FORMAT_LE)
        ELSE BitOr(g1, AF_FORMAT_BE)

ca_make_mp_format(d) ==
    LET flags == d.mFormatFlags
        g0 == BitOr(AF_FORMAT_UNKNOWN, af_bits_to_mask(d.mBitsPerChannel))
        g1 == IF FlagAnd(flags, kAudioFormatFlagIsFloat) # 0
              THEN BitOr(g0, AF_FORMAT_F)
              ELSE IF FlagAnd(flags, kAudioFormatFlagIsSignedInteger) # 0
                   THEN BitOr(BitOr(g0, AF_FORMAT_I), AF_FORMAT_SI)
                   ELSE BitOr(BitOr(g0, AF_FORMAT_I), AF_FORMAT_US)
    IN  IF FlagAnd(flags, kAudioFormatFlagIsBigEndian) # 0
        THEN BitOr(g1, AF_FORMAT_BE)
        ELSE BitOr(g1, AF_FORMAT_LE)

\* {float, signed int, unsigned int} x {BE, LE} x {8, 16, 24, 32} bits
MpFormats ==
    { BitOr(BitOr(cls, e), b) :
        cls \in { AF_FORMAT_F, BitOr(AF_FORMAT_I, AF_FORMAT_SI),
                  BitOr(AF_FORMAT_I, AF_FORMAT_US) },
        e \in { AF_FORMAT_BE, AF_FORMAT_LE },
        b \in { AF_FORMAT_8BIT, AF_FORMAT_16BIT, AF_FORMAT_24BIT,
                AF_FORMAT_32BIT } }
CodecRates == {44100, 48000, 96000}
CodecChannels == {1, 2, 6}

\* descriptors handed to ca_asbd_best
FormatIDs == {"lpcm", "ac-3"}
BestFlags == { f + g : f \in 0..7,
                       g \in {0, kAudioFormatFlagIsPacked,
                              kAudioFormatFlagIsAlignedHigh,
                              kAudioFormatFlagIsNonInterleaved,
                              kAudioFormatFlagIsNonMixable} }
BestTargets ==
    { [ASBD(48000, 2, 16, f) EXCEPT !.mFormatID = id] :
        f \in BestFlags, id \in FormatIDs }
BestMatchees ==
    { [ASBD(r, c, b, f) EXCEPT !.mFormatID = id] :
        r \in {44100, 48000}, c \in {2, 6}, b \in {16, 24},
        f \in BestFlags, id \in FormatIDs }

(***************************************************************************)
(* Channel layout resolver                                                 *)
(***************************************************************************)
\* speaker ids of audio/chmap.h
MP_SPEAKER_ID ==
    [FL |-> 0, FR |-> 1, FC |-> 2, LFE |-> 3, BL |-> 4, BR |-> 5, FLC |-> 6,
     FRC |-> 7, BC |-> 8, SL |-> 9, SR |-> 10, TC |-> 11, TFL |-> 12,
     TFC |-> 13, TFR |-> 14, TBL |-> 15, TBC |-> 16, TBR |-> 17, SDL |-> 18,
     SDR |-> 19, WL |-> 20, WR |-> 21, LFE2 |-> 22, DL |-> 23, DR |-> 24]

speaker_map == <<
    <<"Left",                 MP_SPEAKER_ID.FL>>,
    <<"Right",                MP_SPEAKER_ID.FR>>,
    <<"Center",               MP_SPEAKER_ID.FC>>,
    <<"LFEScreen",            MP_SPEAKER_ID.LFE>>,
    <<"LeftSurround",         MP_SPEAKER_ID.BL>>,
    <<"RightSurround",        MP_SPEAKER_ID.BR>>,
    <<"LeftCenter",           MP_SPEAKER_ID.FLC>>,
    <<"RightCenter",          MP_SPEAKER_ID.FRC>>,
    <<"CenterSurround",       MP_SPEAKER_ID.BC>>,
    <<"LeftSurroundDirect",   MP_SPEAKER_ID.SL>>,
    <<"RightSurroundDirect",  MP_SPEAKER_ID.SR>>,
    <<"TopCenterSurround",    MP_SPEAKER_ID.TC>>,
    <<"VerticalHeightLeft",   MP_SPEAKER_ID.TFL>>,
    <<"VerticalHeightCenter", MP_SPEAKER_ID.TFC>>,
    <<"VerticalHeightRight",  MP_SPEAKER_ID.TFR>>,
    <<"TopBackLeft",          MP_SPEAKER_ID.TBL>>,
    <<"TopBackCenter",        MP_SPEAKER_ID.TBC>>,
    <<"TopBackRight",         MP_SPEAKER_ID.TBR>>,
    <<"RearSurroundLeft",     MP_SPEAKER_ID.SDL>>,
    <<"RearSurroundRight",    MP_SPEAKER_ID.SDR>>,
    <<"LeftWide",             MP_SPEAKER_ID.WL>>,
    <<"RightWide",            MP_SPEAKER_ID.WR>>,
    <<"LFE2",                 MP_SPEAKER_ID.LFE2>>,
    <<"HeadphonesLeft",       MP_SPEAKER_ID.DL>>,
    <<"HeadphonesRight",      MP_SPEAKER_ID.DR>>,
    <<"Unknown",              -1>> >>

RECURSIVE ca_label_scan(_, _)
ca_label_scan(label, i) ==
    IF speaker_map[i][1] = "Unknown" THEN -1
    ELSE IF speaker_map[i][1] = label THEN speaker_map[i][2]
    ELSE ca_label_scan(label, i + 1)

ca_label_to_mp_speaker_id(label) == ca_label_scan(label, 1)

\* the loop of ca_bitmap_from_ch_desc; the bitmap is a uint32_t
RECURSIVE ch_desc_loop(_, _, _, _)
ch_desc_loop(descs, jj, bitmap, all_channels_valid) ==
    IF ~(jj < Len(descs) /\ all_channels_valid)
    THEN [ok |-> all_channels_valid, bitmap |-> bitmap]
    ELSE LET mp_speaker_id == ca_label_to_mp_speaker_id(descs[jj + 1])
         IN  IF mp_speaker_id < 0
             THEN ch_desc_loop(descs, jj + 1, bitmap, FALSE)
             ELSE ch_desc_loop(descs, jj + 1,
                               IF mp_speaker_id >= 32
                               THEN bitmap  \* 1ULL << id has no bit below 2^32
                               ELSE BitOr(bitmap, 2 ^ mp_speaker_id),
                               TRUE)

\* ca_bitmap_from_ch_desc that rejects a layout without descriptions
ca_bitmap_from_ch_desc_nonempty(layout, bitmap) ==
    IF Len(layout.mChannelDescriptions) = 0
    THEN [ok |-> FALSE, bitmap |-> bitmap]
    ELSE ch_desc_loop(layout.mChannelDescriptions, 0, bitmap, TRUE)

\* ca_bitmap_from_ch_desc that reports success for every layout
ca_bitmap_from_ch_desc_partial(layout, bitmap) ==
    [ok |-> TRUE,
     bitmap |-> ch_desc_loop(layout.mChannelDescriptions, 0, bitmap,
                             TRUE).bitmap]

ca_bitmap_from_ch_desc(layout, bitmap) ==
    ch_desc_loop(layout.mChannelDescriptions, 0, bitmap, TRUE)

\* AudioFormatGetProperty(kAudioFormatProperty_BitmapForLayoutTag): the
\* platform's table of the tags it can convert
BitmapForLayoutTag == [Stereo |-> 3, Quadraphonic |-> 51]

ca_bitmap_from_ch_tag(layout, bitmap) ==
    IF layout.mChannelLayoutTag \in DOMAIN BitmapForLayoutTag
    THEN [ok |-> TRUE, bitmap |-> BitmapForLayoutTag[layout.mChannelLayoutTag]]
    ELSE [ok |-> FALSE, bitmap |-> bitmap]

BitmapLayout(mask) ==
    [mChannelLayoutTag |-> "UseChannelBitmap", mChannelBitmap |-> mask,
     mChannelDescriptions |-> <<>>]
DescLayout(labels) ==
    [mChannelLayoutTag |-> "UseChannelDescriptions", mChannelBitmap |-> 0,
     mChannelDescriptions |-> labels]
TagLayout(tag) ==
    [mChannelLayoutTag |-> tag, mChannelBitmap |-> 0,
     mChannelDescriptions |-> <<>>]

\* "Mono" is a label that speaker_map does not list
DescLists ==
    { <<>>, <<"Left">>, <<"Left", "Right">>, <<"Unknown">>,
      <<"Left", "Unknown">>, <<"Unknown", "Right">>, <<"Mono">>,
      <<"Left", "Right", "Mono">>, <<"LFE2", "HeadphonesLeft">> }

LayoutValues ==
    { BitmapLayout(m) : m \in {3, 63} }
        \cup { DescLayout(d) : d \in DescLists }
        \cup { TagLayout(t) : t \in {"Quadraphonic", "DiscreteInOrder"} }

LayoutLists == UNION { [1..n -> LayoutValues] : n \in 0..MaxLayouts }

(***************************************************************************)
(* Property listener                                                       *)
(***************************************************************************)
Selectors == {"PhysicalFormat", "VirtualFormat", "Other"}
FormatSelectors == {"PhysicalFormat", "VirtualFormat"}
NULL == "NULL"
NoListener == [mSelector |-> "none", data |-> NULL]

AddrLists == UNION { [1..n -> Selectors] : n \in 1..MaxAddrs }

\* ca_property_listener that stores the outcome of the search in *data
ca_property_listener_store(selector, addresses, data, flag) ==
    IF data = NULL THEN flag
    ELSE IF \E i \in DOMAIN addresses : addresses[i] = selector
    THEN 1 ELSE 0

\* value of *data after the callback ran, given its value before
ca_property_listener(selector, addresses, data, flag) ==
    IF /\ \E i \in DOMAIN addresses : addresses[i] = selector
       /\ data # NULL
    THEN 1 ELSE flag

ca_stream_listener(addresses, data, flag) ==
    ca_property_listener("PhysicalFormat", addresses, data, flag)

\* the listener record ca_change_stream_listening adds or removes
ca_change_stream_listening(s, flagptr) ==
    [mSelector |-> "VirtualFormat", data |-> flagptr]

(***************************************************************************)
(* ca_change_format                                                        *)
(***************************************************************************)
PollBudget == 50
OSStatus == {"noErr", "error"}

HwFormats == { ASBD(44100, 2, 16, 12), ASBD(48000, 2, 16, 12),
               ASBD(48000, 2, 16, 4) }

CmpIdle ==
    /\ target = NoFormat /\ cands = <<>> /\ best = NoFormat /\ idx = 0
    /\ fst = NoFormat /\ snd = NoFormat /\ res = 0

BestIdle ==
    bt = NoFormat /\ bm = NoFormat /\ bres = "none" /\ brev = "none"

CodecIdle ==
    /\ mp_format = 0 /\ rate = 0 /\ channels = 0
    /\ asbd = NoFormat /\ decoded = -1

LayIdle == layouts = <<>> /\ li = 0 /\ bitmaps = <<>>

MixIdle ==
    /\ mix_pc = "idle" /\ mix_has = FALSE /\ mix_val = 1
    /\ mix_changed = "none" /\ mix_dreq = <<>> /\ mix_derr = "none"
    /\ mix_arg = "none" /\ mix_ereq = <<>> /\ mix_eerr = "none"
    /\ mix_round = 0

CbIdle == cb_data = NULL /\ cb_flag = 0 /\ cb_addrs = <<>>

InitSw ==
    /\ pc = "get"
    /\ sel \in FormatSelectors
    /\ new_format \in HwFormats
    /\ actual_format = NoFormat
    /\ fmt_changed = 0
    /\ j = 0
    /\ ret = "none"
    /\ hw \in [FormatSelectors -> HwFormats]
    /\ hw0 = hw
    /\ pending = FALSE
    /\ listener = NoListener
    /\ requests = <<>>
    /\ sleeps = 0
    /\ log = {}
    /\ notified = FALSE
    /\ dangling_write = FALSE
    /\ CmpIdle /\ BestIdle /\ CodecIdle /\ LayIdle

Init == InitSw /\ CbIdle /\ MixIdle

\* err = CA_GET(stream, sel, &actual_format); the CHECK_CA_WARN return and
\* the ca_asbd_best short-circuit
GetFormat ==
    /\ pc = "get"
    /\ requests' = Append(requests, "get")
    /\ \E err \in OSStatus :
         IF err # "noErr"
         THEN /\ log' = log \cup {"can't fetch format property"}
              /\ ret' = "false" /\ pc' = "done"
              /\ UNCHANGED actual_format
         ELSE /\ actual_format' = hw[sel]
              /\ IF ca_asbd_best(hw[sel], new_format)
                 THEN /\ log' = log \cup
                                  {"requested format matches current format"}
                      /\ ret' = "true" /\ pc' = "done"
                 ELSE /\ pc' = "enable"
                      /\ UNCHANGED <<log, ret>>
    /\ UNCHANGED <<sel, new_format, fmt_changed, j, hw, hw0, pending, listener,
                   sleeps, notified, dangling_write, nonsw>>

\* err = ca_enable_stream_listener(stream, sel, &fmt_changed)
EnableListener ==
    /\ pc = "enable"
    /\ requests' = Append(requests, "add")
    /\ \E err \in OSStatus :
         IF err # "noErr"
         THEN /\ log' = log \cup {"can't add format property listener"}
              /\ ret' = "false" /\ pc' = "done"
              /\ UNCHANGED listener
         ELSE /\ listener' = ca_change_stream_listening(sel, "fmt_changed")
              /\ pc' = "set"
              /\ UNCHANGED <<log, ret>>
    /\ UNCHANGED <<sel, new_format, actual_format, fmt_changed, j, hw, hw0,
                   pending, sleeps, notified, dangling_write, nonsw>>

\* SetFormat that goes on to poll although the set request failed
SetFormat_ignore_error ==
    /\ pc = "set"
    /\ requests' = Append(requests, "set")
    /\ \E err \in OSStatus :
         IF err # "noErr"
         THEN /\ log' = log \cup {"error changing format"}
              /\ pc' = "poll"
              /\ UNCHANGED <<pending, ret>>
         ELSE /\ pending' = TRUE
              /\ pc' = "poll"
              /\ UNCHANGED <<log, ret>>
    /\ UNCHANGED <<sel, new_format, actual_format, fmt_changed, j, hw, hw0,
                   listener, sleeps, notified, dangling_write, nonsw>>

\* err = CA_SET(stream, sel, &new_format)
SetFormat ==
    /\ pc = "set"
    /\ requests' = Append(requests, "set")
    /\ \E err \in OSStatus :
         IF err # "noErr"
         THEN /\ log' = log \cup {"error changing format"}
              /\ ret' = "false" /\ pc' = "done"
              /\ UNCHANGED pending
         ELSE /\ pending' = TRUE
              /\ pc' = "poll"
              /\ UNCHANGED <<log, ret>>
    /\ UNCHANGED <<sel, new_format, actual_format, fmt_changed, j, hw, hw0,
                   listener, sleeps, notified, dangling_write, nonsw>>

\* PollSleep whose loop condition does not read the flag
PollSleep_ignore_flag ==
    /\ pc = "poll"
    /\ j < PollBudget
    /\ sleeps' = sleeps + 1
    /\ j' = j + 1
    /\ UNCHANGED <<pc, sel, new_format, actual_format, fmt_changed, ret, hw,
                   hw0, pending, listener, requests, log, notified,
                   dangling_write, nonsw>>

\* one iteration of  for (j = 0; !fmt_changed && j < 50; j++) mp_sleep_us()
PollSleep ==
    /\ pc = "poll"
    /\ fmt_changed = 0 /\ j < PollBudget
    /\ sleeps' = sleeps + 1
    /\ j' = j + 1
    /\ UNCHANGED <<pc, sel, new_format, actual_format, fmt_changed, ret, hw,
                   hw0, pending, listener, requests, log, notified,
                   dangling_write, nonsw>>

\* the loop condition is false
PollExit ==
    /\ pc = "poll"
    /\ ~(fmt_changed = 0 /\ j < PollBudget)
    /\ pc' = "warn"
    /\ UNCHANGED <<sel, new_format, actual_format, fmt_changed, j, ret, hw,
                   hw0, pending, listener, requests, sleeps, log, notified,
                   dangling_write, nonsw>>

\* WarnTimeout with the test of the flag inverted
WarnTimeout_inverted ==
    /\ pc = "warn"
    /\ log' = IF fmt_changed # 0
              THEN log \cup {"reached timeout while polling for format changes"}
              ELSE log
    /\ pc' = "disable"
    /\ UNCHANGED <<sel, new_format, actual_format, fmt_changed, j, ret, hw,
                   hw0, pending, listener, requests, sleeps, notified,
                   dangling_write, nonsw>>

\* if (!fmt_changed) MP_WARN(...)
WarnTimeout ==
    /\ pc = "warn"
    /\ log' = IF fmt_changed = 0
              THEN log \cup {"reached timeout while polling for format changes"}
              ELSE log
    /\ pc' = "disable"
    /\ UNCHANGED <<sel, new_format, actual_format, fmt_changed, j, ret, hw,
                   hw0, pending, listener, requests, sleeps, notified,
                   dangling_write, nonsw>>

\* DisableListener that reports success whatever the removal returns
DisableListener_ignore_error ==
    /\ pc = "disable"
    /\ requests' = Append(requests, "remove")
    /\ \E err \in OSStatus :
         IF err # "noErr"
         THEN /\ log' = log \cup {"can't remove format property listener"}
              /\ ret' = "true"
              /\ UNCHANGED listener
         ELSE /\ listener' = NoListener
              /\ ret' = "true"
              /\ UNCHANGED log
    /\ pc' = "done"
    /\ UNCHANGED <<sel, new_format, actual_format, fmt_changed, j, hw, hw0,
                   pending, sleeps, notified, dangling_write, nonsw>>

\* err = ca_disable_stream_listener(stream, sel, &fmt_changed)
DisableListener ==
    /\ pc = "disable"
    /\ requests' = Append(requests, "remove")
    /\ \E err \in OSStatus :
         IF err # "noErr"
         THEN /\ log' = log \cup {"can't remove format property listener"}
              /\ ret' = "false"
              /\ UNCHANGED listener
         ELSE /\ listener' = NoListener
              /\ ret' = "true"
              /\ UNCHANGED log
    /\ pc' = "done"
    /\ UNCHANGED <<sel, new_format, actual_format, fmt_changed, j, hw, hw0,
                   pending, sleeps, notified, dangling_write, nonsw>>

\* the hardware applies an accepted format-set request
HwApplyFormat ==
    /\ pending
    /\ pending' = FALSE
    /\ hw' = [hw EXCEPT ![sel] = new_format]
    /\ UNCHANGED <<pc, sel, new_format, actual_format, fmt_changed, j, ret,
                   hw0, listener, requests, sleeps, log, notified,
                   dangling_write, nonsw>>

\* the framework's thread invokes the registered listener
HwNotify ==
    /\ listener # NoListener
    /\ \E addresses \in AddrLists :
         LET v == ca_stream_listener(addresses, listener.data, fmt_changed)
         IN  /\ IF pc # "done"
                THEN /\ fmt_changed' = v
                     /\ UNCHANGED dangling_write
                ELSE /\ dangling_write' = (dangling_write \/
                           ca_stream_listener(addresses, listener.data, 0) = 1)
                     /\ UNCHANGED fmt_changed
             /\ notified' = (notified \/
                    (/\ pc = "poll" /\ j < PollBudget
                     /\ \E i \in DOMAIN addresses :
                            addresses[i] = listener.mSelector))
    /\ UNCHANGED <<pc, sel, new_format, actual_format, j, ret, hw, hw0,
                   pending, listener, requests, sleeps, log, nonsw>>

Next ==
    \/ GetFormat
    \/ EnableListener
    \/ SetFormat
    \/ PollSleep
    \/ PollExit
    \/ WarnTimeout
    \/ DisableListener
    \/ HwApplyFormat
    \/ HwNotify

Spec == Init /\ [][Next]_vars

TypeOK ==
    /\ pc \in {"idle", "get", "enable", "set", "poll", "warn", "disable", "done"}
    /\ ret \in {"none", "true", "false"}
    /\ fmt_changed \in {0, 1}
    /\ j \in 0..PollBudget
    /\ sleeps \in 0..PollBudget

(***************************************************************************)
(* The caller's reduction of the hardware's candidate list                 *)
(***************************************************************************)
SwIdle ==
    /\ pc = "idle" /\ sel = "PhysicalFormat" /\ new_format = NoFormat
    /\ actual_format = NoFormat /\ fmt_changed = 0 /\ j = 0 /\ ret = "none"
    /\ hw = [s \in FormatSelectors |-> NoFormat] /\ hw0 = hw
    /\ pending = FALSE /\ listener = NoListener /\ requests = <<>>
    /\ sleeps = 0 /\ log = {} /\ notified = FALSE /\ dangling_write = FALSE

InitCmp ==
    /\ target \in Targets
    /\ cands \in CandLists
    /\ best = cands[1]
    /\ idx = 1
    /\ fst = NoFormat /\ snd = NoFormat /\ res = 0
    /\ SwIdle /\ BestIdle /\ CodecIdle /\ LayIdle /\ CbIdle /\ MixIdle

\* one pairwise application of ca_asbd_better to the running winner and the
\* next candidate
ReduceStep ==
    /\ idx >= 1 /\ idx < Len(cands)
    /\ fst' = best
    /\ snd' = cands[idx + 1]
    /\ res' = ca_asbd_better(target, best, cands[idx + 1])
    /\ best' = Pick(target, best, cands[idx + 1])
    /\ idx' = idx + 1
    /\ UNCHANGED <<target, cands, swvars, bestvars, codecvars, layvars,
                   cbvars, mixvars>>

NextCmp == ReduceStep

SpecCmp == InitCmp /\ [][NextCmp]_vars

Reduced == idx >= 1 /\ idx = Len(cands)
Compared == idx >= 2

(***************************************************************************)
(* ca_asbd_best applied to a pair of descriptors                           *)
(***************************************************************************)
BoolStr(b) == IF b THEN "true" ELSE "false"

InitBest ==
    /\ bt \in BestTargets
    /\ bm \in BestMatchees
    /\ bres = "none" /\ brev = "none"
    /\ SwIdle /\ CmpIdle /\ CodecIdle /\ LayIdle /\ CbIdle /\ MixIdle

CallBest ==
    /\ bres = "none"
    /\ bt # NoFormat
    /\ bres' = BoolStr(ca_asbd_best(bt, bm))
    /\ brev' = BoolStr(ca_asbd_best(bm, bt))
    /\ UNCHANGED <<bt, bm, swvars, cmpvars, codecvars, layvars, cbvars, mixvars>>

NextBest == CallBest

SpecBest == InitBest /\ [][NextBest]_vars

(***************************************************************************)
(* ca_make_asbd followed by ca_make_mp_format                              *)
(***************************************************************************)
InitCodec ==
    /\ mp_format \in MpFormats
    /\ rate \in CodecRates
    /\ channels \in CodecChannels
    /\ asbd = NoFormat
    /\ decoded = -1
    /\ SwIdle /\ CmpIdle /\ BestIdle /\ LayIdle /\ CbIdle /\ MixIdle

Encode ==
    /\ rate # 0 /\ asbd = NoFormat
    /\ asbd' = ca_make_asbd(mp_format, rate, channels)
    /\ UNCHANGED <<mp_format, rate, channels, decoded, swvars, cmpvars,
                   bestvars, layvars, cbvars, mixvars>>

Decode ==
    /\ asbd # NoFormat /\ decoded = -1
    /\ decoded' = ca_make_mp_format(asbd)
    /\ UNCHANGED <<mp_format, rate, channels, asbd, swvars, cmpvars,
                   bestvars, layvars, cbvars, mixvars>>

NextCodec == Encode \/ Decode

SpecCodec == InitCodec /\ [][NextCodec]_vars

(***************************************************************************)
(* ca_bitmaps_from_layouts, one loop iteration per step                    *)
(***************************************************************************)
InitLay ==
    /\ layouts \in LayoutLists
    /\ li = 0
    /\ bitmaps = <<>>
    /\ SwIdle /\ CmpIdle /\ BestIdle /\ CodecIdle /\ CbIdle /\ MixIdle

\* LayoutStep that gives up on the whole batch at the first rejected layout
LayoutStep_abort ==
    /\ li < Len(layouts)
    /\ LET l == layouts[li + 1]
           r == IF l.mChannelLayoutTag = "UseChannelBitmap"
                THEN [ok |-> TRUE, bitmap |-> l.mChannelBitmap]
                ELSE IF l.mChannelLayoutTag = "UseChannelDescriptions"
                THEN ca_bitmap_from_ch_desc(l, 0)
                ELSE ca_bitmap_from_ch_tag(l, 0)
       IN  /\ bitmaps' = IF r.ok THEN Append(bitmaps, r.bitmap) ELSE bitmaps
           /\ li' = IF r.ok THEN li + 1 ELSE Len(layouts)
    /\ UNCHANGED <<layouts, swvars, cmpvars, bestvars, codecvars, cbvars, mixvars>>

LayoutStep ==
    /\ li < Len(layouts)
    /\ LET l == layouts[li + 1]
           r == IF l.mChannelLayoutTag = "UseChannelBitmap"
                THEN [ok |-> TRUE, bitmap |-> l.mChannelBitmap]
                ELSE IF l.mChannelLayoutTag = "UseChannelDescriptions"
                THEN ca_bitmap_from_ch_desc(l, 0)
                ELSE ca_bitmap_from_ch_tag(l, 0)
       IN  bitmaps' = IF r.ok THEN Append(bitmaps, r.bitmap) ELSE bitmaps
    /\ li' = li + 1
    /\ UNCHANGED <<layouts, swvars, cmpvars, bestvars, codecvars, cbvars, mixvars>>

NextLay == LayoutStep

SpecLay == InitLay /\ [][NextLay]_vars

(***************************************************************************)
(* ca_change_format next to a listener called with any context             *)
(***************************************************************************)
InitCb ==
    /\ InitSw
    /\ sel = "PhysicalFormat"
    /\ new_format \in {ASBD(44100, 2, 16, 12), ASBD(48000, 2, 16, 12)}
    /\ hw = [s \in FormatSelectors |-> ASBD(44100, 2, 16, 12)]
    /\ cb_data \in {NULL, "cb_flag"}
    /\ cb_flag \in {0, 1}
    /\ cb_addrs = <<>>
    /\ MixIdle

\* address lists for a listener of its own: with respect to the expected
\* selector every other selector behaves alike
CbAddrLists ==
    UNION { [1..n -> {"PhysicalFormat", "Other"}] : n \in 1..MaxAddrs }

\* the framework invokes ca_stream_listener with context cb_data
ListenerCall ==
    /\ \E addresses \in CbAddrLists :
         /\ cb_addrs' = addresses
         /\ cb_flag' = ca_stream_listener(addresses, cb_data, cb_flag)
    /\ UNCHANGED <<cb_data, swvars, cmpvars, bestvars, codecvars, layvars,
                   mixvars>>

NextCb ==
    \/ GetFormat
    \/ EnableListener
    \/ SetFormat
    \/ PollSleep
    \/ PollExit
    \/ WarnTimeout
    \/ DisableListener
    \/ HwApplyFormat
    \/ HwNotify
    \/ ListenerCall

SpecCb == InitCb /\ [][NextCb]_vars

(***************************************************************************)
(* ca_change_format with a control thread that keeps running               *)
(***************************************************************************)
\* the steps of the thread that called ca_change_format: every hardware
\* request and every mp_sleep_us returns
ControlThread ==
    \/ GetFormat
    \/ EnableListener
    \/ SetFormat
    \/ PollSleep
    \/ PollExit
    \/ WarnTimeout
    \/ DisableListener

SpecLive == Init /\ [][Next]_vars /\ WF_vars(ControlThread)

(***************************************************************************)
(* ca_change_mixing, ca_disable_mixing, ca_enable_mixing                   *)
(***************************************************************************)
MsgSettable    == "can't tell if mixing property is settable"
MsgNotSettable == "mixing property is *not* settable"

\* one call of ca_change_mixing on a device whose mixing property is cur:
\* has is the answer of AudioObjectHasProperty, serr and writeable the
\* outcome of CA_SETTABLE, seterr the outcome of CA_SET.  reqs lists the
\* hardware requests issued, each with its outcome.
ca_change_mixing(has, serr, writeable, seterr, val, cur) ==
    IF ~has
    THEN [err |-> "noErr", changed |-> FALSE, value |-> cur, msgs |-> {},
          reqs |-> << <<"HasProperty", "false">> >>]
    ELSE IF serr # "noErr"
    THEN [err |-> serr, changed |-> FALSE, value |-> cur,
          msgs |-> {MsgSettable},
          reqs |-> << <<"HasProperty", "true">>, <<"CA_SETTABLE", serr>> >>]
    ELSE IF ~writeable
    THEN [err |-> "noErr", changed |-> FALSE, value |-> cur,
          msgs |-> {MsgNotSettable},
          reqs |-> << <<"HasProperty", "true">>,
                      <<"CA_SETTABLE", "false">> >>]
    ELSE IF seterr # "noErr"
    THEN [err |-> seterr, changed |-> FALSE, value |-> cur, msgs |-> {},
          reqs |-> << <<"HasProperty", "true">>, <<"CA_SETTABLE", "true">>,
                      <<"CA_SET", seterr>> >>]
    ELSE [err |-> "noErr", changed |-> TRUE, value |-> val, msgs |-> {},
          reqs |-> << <<"HasProperty", "true">>, <<"CA_SETTABLE", "true">>,
                      <<"CA_SET", "noErr">> >>]

ca_disable_mixing(has, serr, writeable, seterr, cur) ==
    ca_change_mixing(has, serr, writeable, seterr, 0, cur)

\* ca_enable_mixing that does not look at its changed argument
ca_enable_mixing_always(has, serr, writeable, seterr, cur, changed) ==
    ca_change_mixing(has, serr, writeable, seterr, 1, cur)

ca_enable_mixing(has, serr, writeable, seterr, cur, changed) ==
    IF changed
    THEN ca_change_mixing(has, serr, writeable, seterr, 1, cur)
    ELSE [err |-> "noErr", changed |-> FALSE, value |-> cur, msgs |-> {},
          reqs |-> <<>>]

InitMix ==
    /\ mix_pc = "start"
    /\ mix_has \in BOOLEAN
    /\ mix_val \in {0, 1}
    /\ mix_changed = "none" /\ mix_dreq = <<>> /\ mix_derr = "none"
    /\ mix_arg = "none" /\ mix_ereq = <<>> /\ mix_eerr = "none"
    /\ mix_round = 1
    /\ SwIdle /\ CmpIdle /\ BestIdle /\ CodecIdle /\ LayIdle /\ CbIdle

\* err = ca_disable_mixing(ao, device, &changed)
DisableMixing ==
    /\ mix_pc = "start"
    /\ \E serr \in OSStatus, writeable \in BOOLEAN, seterr \in OSStatus :
         LET r == ca_disable_mixing(mix_has, serr, writeable, seterr, mix_val)
         IN  /\ mix_changed' = BoolStr(r.changed)
             /\ mix_dreq' = r.reqs
             /\ mix_derr' = r.err
             /\ mix_val' = r.value
    /\ mix_pc' = "disabled"
    /\ UNCHANGED <<mix_has, mix_arg, mix_ereq, mix_eerr, mix_round>>
    /\ UNCHANGED <<swvars, cmpvars, bestvars, codecvars, layvars, cbvars>>

\* err = ca_enable_mixing(ao, device, arg), arg being any bool a caller
\* may pass
EnableMixing ==
    /\ mix_pc = "disabled"
    /\ \E arg \in BOOLEAN, serr \in OSStatus, writeable \in BOOLEAN,
          seterr \in OSStatus :
         LET r == ca_enable_mixing(mix_has, serr, writeable, seterr, mix_val,
                                   arg)
         IN  /\ mix_arg' = BoolStr(arg)
             /\ mix_ereq' = r.reqs
             /\ mix_eerr' = r.err
             /\ mix_val' = r.value
    /\ mix_pc' = "enabled"
    /\ UNCHANGED <<mix_has, mix_changed, mix_dreq, mix_derr, mix_round>>
    /\ UNCHANGED <<swvars, cmpvars, bestvars, codecvars, layvars, cbvars>>

\* the device is opened again: the next disable/enable sequence starts on
\* the device as the previous one left it
NextRound ==
    /\ mix_pc = "enabled"
    /\ mix_round < MaxRounds
    /\ mix_round' = mix_round + 1
    /\ mix_pc' = "start"
    /\ mix_changed' = "none" /\ mix_dreq' = <<>> /\ mix_derr' = "none"
    /\ mix_arg' = "none" /\ mix_ereq' = <<>> /\ mix_eerr' = "none"
    /\ UNCHANGED <<mix_has, mix_val>>
    /\ UNCHANGED <<swvars, cmpvars, bestvars, codecvars, layvars, cbvars>>

NextMix ==
    \/ DisableMixing
    \/ EnableMixing
    \/ NextRound

SpecMix == InitMix /\ [][NextMix]_vars

(***************************************************************************)
(* Properties of ca_change_format (checked under Spec)                     *)
(***************************************************************************)
MsgGet     == "can't fetch format property"
MsgAdd     == "can't add format property listener"
MsgSet     == "error changing format"
MsgRemove  == "can't remove format property listener"
MsgTimeout == "reached timeout while polling for format changes"

\* C1: whenever ca_change_format has returned, no listener is registered
\* any more (on every exit path: confirmed, timed out, set request failed).
C1_ListenerRemovedOnReturn ==
    pc = "done" => listener = NoListener

\* C2 (as stated): when get, add and set succeeded and the flag was never
\* set, the function ends after exactly 50 sleeps, with the timeout warning,
\* the listener removed and the result true.
C2_TimeoutReturnsTrue ==
    (pc = "done" /\ Len(requests) = 4 /\ fmt_changed = 0)
        => /\ sleeps = 50
           /\ MsgTimeout \in log
           /\ listener = NoListener
           /\ ret = "true"

\* C2 (amended): when get, add and set succeeded and the flag was never set,
\* the function ends after exactly 50 sleeps with the timeout warning; it
\* removes the listener and returns true if the removal request succeeds,
\* and returns false if the removal request fails.
C2_TimeoutBounded ==
    (pc = "done" /\ Len(requests) = 4 /\ fmt_changed = 0)
        => /\ sleeps = 50
           /\ j = 50
           /\ MsgTimeout \in log
           /\ (MsgRemove \notin log => listener = NoListener /\ ret = "true")
           /\ (MsgRemove \in log => ret = "false")

C2_Witness ==
    /\ pc = "done" /\ Len(requests) = 4 /\ fmt_changed = 0
    /\ ret = "true" /\ sleeps = 50

\* C3: a notification for the subscribed property that arrives while the
\* loop is polling with budget left sets the confirmation flag, and the
\* attempt ends without the timeout warning.
C3_NotificationConfirms ==
    notified => (fmt_changed = 1 /\ MsgTimeout \notin log)

\* C4: if the format read from the hardware is the best match for the
\* requested one, the function has returned true having issued only the get
\* request: no add, set or remove, no sleep, hardware unchanged.
C4_NoOpShortCircuit ==
    LET t == actual_format
        m == new_format
        agree(f) == FlagAnd(t.mFormatFlags, f) = FlagAnd(m.mFormatFlags, f)
    IN  (/\ actual_format # NoFormat
         /\ t.mFormatID = m.mFormatID
         /\ t.mBitsPerChannel = m.mBitsPerChannel
         /\ t.mSampleRate = m.mSampleRate
         /\ t.mChannelsPerFrame = m.mChannelsPerFrame
         /\ agree(kAudioFormatFlagIsFloat)
         /\ agree(kAudioFormatFlagIsSignedInteger)
         /\ agree(kAudioFormatFlagIsBigEndian))
        => /\ pc = "done"
           /\ ret = "true"
           /\ requests = <<"get">>
           /\ sleeps = 0
           /\ hw = hw0
           /\ listener = NoListener
           /\ ~pending

\* the short-circuit taken for a current format that differs from the
\* requested one in the packed flag only
C4_Witness ==
    /\ pc = "done" /\ ret = "true" /\ requests = <<"get">>
    /\ actual_format # NoFormat
    /\ actual_format # new_format

\* C5: a failed get, add or set makes the function return false without
\* polling; a failed get issues no add and no set, a failed add no set.
C5_AbortOnFirstFailure ==
    /\ MsgGet \in log =>
          pc = "done" /\ ret = "false" /\ requests = <<"get">> /\ sleeps = 0
    /\ MsgAdd \in log =>
          pc = "done" /\ ret = "false" /\ requests = <<"get", "add">>
              /\ sleeps = 0
    /\ MsgSet \in log =>
          pc = "done" /\ ret = "false" /\ requests = <<"get", "add", "set">>
              /\ sleeps = 0 /\ ~pending /\ hw = hw0

C5_Witness ==
    pc = "done" /\ MsgSet \in log /\ ret = "false"

\* C6: whenever the function reports failure the hardware format is the one
\* it had before the attempt.
C6_PriorFormatRetained ==
    (pc = "done" /\ ret = "false") => hw = hw0

(***************************************************************************)
(* Properties of ca_asbd_better (checked under SpecCmp)                    *)
(***************************************************************************)
DistinctRates(list) ==
    \A a, b \in DOMAIN list : a # b => list[a].mSampleRate # list[b].mSampleRate

Permuted(list, p) == [i \in DOMAIN list |-> list[p[i]]]

\* C7: for candidates with pairwise distinct sample rates the reduction
\* yields the same winner under every permutation of the list.
C7_OrderIndependent ==
    (Reduced /\ DistinctRates(cands))
        => \A p \in Permutations(DOMAIN cands) :
               Reduce(target, Permuted(cands, p)) = best

Adequate(c) ==
    /\ c.mSampleRate >= target.mSampleRate
    /\ c.mChannelsPerFrame = target.mChannelsPerFrame

\* C8: if some candidate has a rate >= the target's and the target's channel
\* count, the winner of the reduction has a rate >= the target's.
C8_NeverDownsample ==
    (Reduced /\ \E i \in DOMAIN cands : Adequate(cands[i]))
        => best.mSampleRate >= target.mSampleRate

\* a reduction that starts from an inadequate candidate, meets a candidate
\* below the target rate with the right channel count, and an adequate one
C8_Witness ==
    /\ Reduced /\ Len(cands) >= 3
    /\ ~Adequate(cands[1])
    /\ \E i \in DOMAIN cands : Adequate(cands[i])
    /\ \E i \in DOMAIN cands :
          /\ cands[i].mSampleRate # 0
          /\ cands[i].mSampleRate < target.mSampleRate
          /\ cands[i].mChannelsPerFrame = target.mChannelsPerFrame
    /\ best.mSampleRate >= target.mSampleRate

ChanMatch(c) == c.mChannelsPerFrame = target.mChannelsPerFrame

\* C9 (as stated): in either argument order a candidate with the target's
\* channel count beats one with a different channel count, whatever the
\* sample rates.
C9_ChannelPriorityAnyRate ==
    Compared =>
        /\ (ChanMatch(fst) /\ ~ChanMatch(snd)) => res = -1
        /\ (~ChanMatch(fst) /\ ChanMatch(snd)) => res = 1

\* C9 (amended): in either argument order a candidate with the target's
\* channel count that is initialized (sampleRate # 0) beats one with a
\* different channel count, whatever the sample rates.
C9_ChannelPriority ==
    Compared =>
        /\ (ChanMatch(fst) /\ ~ChanMatch(snd) /\ fst.mSampleRate # 0)
              => (res = -1 /\ best = fst)
        /\ (~ChanMatch(fst) /\ ChanMatch(snd) /\ snd.mSampleRate # 0)
              => (res = 1 /\ best = snd)

\* the matching candidate is below the target rate, the other one above it
C9_Witness ==
    /\ Compared
    /\ ~ChanMatch(fst) /\ ChanMatch(snd)
    /\ fst.mSampleRate > target.mSampleRate
    /\ snd.mSampleRate # 0 /\ snd.mSampleRate < target.mSampleRate
    /\ res = 1

\* C10: of two initialized candidates with the same channel-count status and
\* rates >= the target's, the one with the lower rate wins, whichever is fst.
C10_ClosestFromAbove ==
    (/\ Compared
     /\ fst.mSampleRate # 0 /\ snd.mSampleRate # 0
     /\ ChanMatch(fst) = ChanMatch(snd)
     /\ fst.mSampleRate >= target.mSampleRate
     /\ snd.mSampleRate >= target.mSampleRate)
        => /\ fst.mSampleRate < snd.mSampleRate => res = -1
           /\ snd.mSampleRate < fst.mSampleRate => res = 1

\* C11: of two initialized candidates with the same channel-count status and
\* rates below the target's, the one with the higher rate wins, whichever
\* is fst.
C11_ClosestFromBelow ==
    (/\ Compared
     /\ fst.mSampleRate # 0 /\ snd.mSampleRate # 0
     /\ ChanMatch(fst) = ChanMatch(snd)
     /\ fst.mSampleRate < target.mSampleRate
     /\ snd.mSampleRate < target.mSampleRate)
        => /\ fst.mSampleRate > snd.mSampleRate => res = -1
           /\ snd.mSampleRate > fst.mSampleRate => res = 1

\* C12: when exactly one of the two candidates is uninitialized the other
\* one wins, in either argument order and whatever the channel counts; a
\* reduction of a list holding an initialized candidate ends initialized.
C12_UninitializedLoses ==
    /\ Compared =>
          /\ (fst.mSampleRate = 0 /\ snd.mSampleRate # 0)
                => (res = 1 /\ best = snd)
          /\ (fst.mSampleRate # 0 /\ snd.mSampleRate = 0)
                => (res = -1 /\ best = fst)
    /\ (Reduced /\ \E i \in DOMAIN cands : cands[i].mSampleRate # 0)
          => best.mSampleRate # 0

\* an uninitialized snd with the target's channel count loses to an
\* initialized fst with another channel count
C12_Witness ==
    /\ Reduced /\ Compared
    /\ snd.mSampleRate = 0 /\ ChanMatch(snd)
    /\ fst.mSampleRate # 0 /\ ~ChanMatch(fst)
    /\ res = -1 /\ best = fst

Exact(c) ==
    /\ c.mSampleRate = target.mSampleRate
    /\ c.mChannelsPerFrame = target.mChannelsPerFrame

\* C13: a reduction of a list that holds a candidate with the target's rate
\* and channel count ends at a candidate with the target's rate and channel
\* count.
C13_ExactMatchWins ==
    (Reduced /\ \E i \in DOMAIN cands : Exact(cands[i])) => Exact(best)

\* target {48000,16,2}, candidates [{0}, {44100,16,2}, {48000,16,2},
\* {96000,16,2}]
C13_Witness ==
    /\ Reduced
    /\ target = ASBD(48000, 2, 16, 12)
    /\ cands = << ASBD(0, 2, 16, 12), ASBD(44100, 2, 16, 12),
                  ASBD(48000, 2, 16, 12), ASBD(96000, 2, 16, 12) >>
    /\ best = ASBD(48000, 2, 16, 12)

(***************************************************************************)
(* Properties of ca_asbd_best (checked under SpecBest)                     *)
(***************************************************************************)
\* C14: ca_asbd_best is true exactly when formatID, bitsPerChannel,
\* sampleRate and channelCount are equal and the flags agree on isFloat,
\* isSignedInteger and isBigEndian (the other flags are ignored), and it
\* gives the same answer with its two arguments exchanged.
C14_BestExactly ==
    bres # "none" =>
        LET agree(f) ==
                FlagAnd(bt.mFormatFlags, f) = FlagAnd(bm.mFormatFlags, f)
        IN  /\ bres = "true" <=>
                  /\ bt.mFormatID = bm.mFormatID
                  /\ bt.mBitsPerChannel = bm.mBitsPerChannel
                  /\ bt.mSampleRate = bm.mSampleRate
                  /\ bt.mChannelsPerFrame = bm.mChannelsPerFrame
                  /\ agree(kAudioFormatFlagIsFloat)
                  /\ agree(kAudioFormatFlagIsSignedInteger)
                  /\ agree(kAudioFormatFlagIsBigEndian)
            /\ brev = bres

\* two descriptors that differ in the non-mixable flag only are best
C14_Witness ==
    /\ bres = "true" /\ brev = "true"
    /\ bm.mFormatFlags = bt.mFormatFlags + kAudioFormatFlagIsNonMixable

(***************************************************************************)
(* Properties of the codec (checked under SpecCodec)                       *)
(***************************************************************************)
\* C15: decoding the encoded descriptor reproduces the sample format's bit
\* depth, float/integer class, signedness and endianness.
C15_CodecRoundTrip ==
    decoded # -1 =>
        /\ af_fmt2bits(decoded) = af_fmt2bits(mp_format)
        /\ BitAnd(decoded, AF_FORMAT_BITS_MASK)
              = BitAnd(mp_format, AF_FORMAT_BITS_MASK)
        /\ BitAnd(decoded, AF_FORMAT_POINT_MASK)
              = BitAnd(mp_format, AF_FORMAT_POINT_MASK)
        /\ BitAnd(decoded, AF_FORMAT_SIGN_MASK)
              = BitAnd(mp_format, AF_FORMAT_SIGN_MASK)
        /\ BitAnd(decoded, AF_FORMAT_END_MASK)
              = BitAnd(mp_format, AF_FORMAT_END_MASK)
        /\ decoded = mp_format

\* an unsigned little-endian 24 bit integer format went through the codec
C15_Witness ==
    /\ decoded # -1
    /\ mp_format = AF_FORMAT_I + AF_FORMAT_US + AF_FORMAT_LE + AF_FORMAT_24BIT
    /\ asbd.mBitsPerChannel = 24
    /\ asbd.mFormatFlags = kAudioFormatFlagIsPacked
    /\ decoded = mp_format

(***************************************************************************)
(* Properties of the layout resolver (checked under SpecLay)               *)
(***************************************************************************)
LabelMaps(label) ==
    \E i \in 1..(Len(speaker_map) - 1) : speaker_map[i][1] = label

LabelBit(label) ==
    2 ^ speaker_map[CHOOSE i \in 1..(Len(speaker_map) - 1) :
                        speaker_map[i][1] = label][2]

RECURSIVE OrLabels(_)
OrLabels(labels) ==
    IF labels = <<>> THEN 0
    ELSE BitOr(LabelBit(Head(labels)), OrLabels(Tail(labels)))

Resolves(l) ==
    IF l.mChannelLayoutTag = "UseChannelBitmap" THEN TRUE
    ELSE IF l.mChannelLayoutTag = "UseChannelDescriptions"
    THEN \A k \in DOMAIN l.mChannelDescriptions :
            LabelMaps(l.mChannelDescriptions[k])
    ELSE l.mChannelLayoutTag \in DOMAIN BitmapForLayoutTag

MaskOf(l) ==
    IF l.mChannelLayoutTag = "UseChannelBitmap" THEN l.mChannelBitmap
    ELSE IF l.mChannelLayoutTag = "UseChannelDescriptions"
    THEN OrLabels(l.mChannelDescriptions)
    ELSE BitmapForLayoutTag[l.mChannelLayoutTag]

RECURSIVE ResolvedMasks(_)
ResolvedMasks(list) ==
    IF list = <<>> THEN <<>>
    ELSE IF Resolves(Head(list))
         THEN <<MaskOf(Head(list))>> \o ResolvedMasks(Tail(list))
         ELSE ResolvedMasks(Tail(list))

\* C16: the output holds exactly the bitmasks of the layouts that resolve,
\* in the order of the inputs, and is no longer than the input; a rejected
\* layout does not remove, alter or reorder another layout's bitmask.
C16_BatchIndependence ==
    /\ bitmaps = ResolvedMasks(SubSeq(layouts, 1, li))
    /\ Len(bitmaps) <= li /\ li <= Len(layouts)

\* [Bitmap(0x3), Descriptions([Unknown]), Tag(known -> 0x33)] gives
\* [0x3, 0x33]
C16_Witness ==
    /\ li = 3
    /\ layouts = << BitmapLayout(3), DescLayout(<<"Unknown">>),
                    TagLayout("Quadraphonic") >>
    /\ bitmaps = <<3, 51>>

\* C17: a Descriptions layout with a label that has no entry in speaker_map
\* adds nothing to the output; otherwise it adds exactly the OR of
\* (1 << speaker id) over all its labels.
C17_NoPartialBitmasks ==
    [][ (li' = li + 1 /\
         layouts[li + 1].mChannelLayoutTag = "UseChannelDescriptions")
          => LET d == layouts[li + 1].mChannelDescriptions
             IN  IF \E k \in DOMAIN d : ~LabelMaps(d[k])
                 THEN bitmaps' = bitmaps
                 ELSE bitmaps' = Append(bitmaps, OrLabels(d)) ]_vars

\* a layout rejected after a mappable first label, then a fully mapped one
C17_Witness ==
    /\ li = 2 /\ Len(layouts) = 2
    /\ layouts[1] = DescLayout(<<"Left", "Unknown">>)
    /\ layouts[2] = DescLayout(<<"Left", "Right">>)
    /\ bitmaps = <<3>>

(***************************************************************************)
(* Further properties of ca_change_format                                  *)
(***************************************************************************)
\* C18: if the listener removal fails the function returns false, also
\* after a successful set and a confirmed or timed-out poll; true is
\* returned only with no listener left registered: either none was ever
\* added (the current format already matched) or its removal succeeded,
\* and a removal that succeeded yields true.
C18_RemovalFailureFails ==
    /\ MsgRemove \in log => (pc = "done" /\ ret = "false")
    /\ (pc = "done" /\ ret = "true")
          => /\ MsgRemove \notin log /\ listener = NoListener
             /\ \/ requests = <<"get">>
                \/ requests = <<"get", "add", "set", "remove">>
    /\ (pc = "done" /\ Len(requests) = 4 /\ MsgRemove \notin log)
          => ret = "true"

\* the change was confirmed by the flag and the removal failed
C18_Witness ==
    /\ pc = "done" /\ MsgRemove \in log /\ ret = "false"
    /\ fmt_changed = 1 /\ MsgTimeout \notin log /\ MsgSet \notin log

\* C19 (checked under SpecCb): the flag of a negotiation attempt never goes
\* back from 1; a step that changes it sets it to 1 and changes nothing else
\* of the attempt; a listener call sets its flag to 1 only if the context is
\* not null and a notified address carries the expected selector, and
\* otherwise leaves it unchanged.
C19_CallbackOnlySetsFlag ==
    [][ /\ fmt_changed = 1 => fmt_changed' = 1
        /\ fmt_changed' # fmt_changed =>
              /\ fmt_changed' = 1
              /\ UNCHANGED <<pc, sel, new_format, actual_format, j, ret, hw,
                             hw0, pending, listener, requests, sleeps, log>>
        /\ cb_flag = 1 => cb_flag' = 1
        /\ cb_flag' # cb_flag =>
              /\ cb_flag' = 1
              /\ cb_data # NULL
              /\ \E i \in DOMAIN cb_addrs' : cb_addrs'[i] = "PhysicalFormat"
              /\ UNCHANGED swvars
        /\ (cb_addrs' # cb_addrs /\ cb_data # NULL /\
            \E i \in DOMAIN cb_addrs' : cb_addrs'[i] = "PhysicalFormat")
              => cb_flag' = 1 ]_vars

\* the attempt's flag was set while polling; a listener with a null context
\* was called with the expected selector and its flag is still 0
C19_Witness ==
    /\ pc = "poll" /\ fmt_changed = 1
    /\ cb_data = NULL /\ cb_flag = 0
    /\ cb_addrs = <<"Other", "PhysicalFormat">>

\* C20 (checked under SpecLive): at most 50 sleeps; a sleep happens only
\* when the loop condition found the flag clear and budget left; the
\* function always returns.
C20_BoundedPolling ==
    /\ [](sleeps <= 50)
    /\ [][sleeps' # sleeps =>
            (sleeps' = sleeps + 1 /\ fmt_changed = 0 /\ j < 50)]_vars
    /\ <>(pc = "done")

\* the flag was set after some sleeps and the function returned before the
\* budget was used up
C20_Witness ==
    /\ pc = "done" /\ fmt_changed = 1
    /\ sleeps > 0 /\ sleeps < 50

(***************************************************************************)
(* Further properties of ca_bitmaps_from_layouts                           *)
(***************************************************************************)
\* C21: a Descriptions layout with zero channel descriptions is accepted:
\* the iteration that processes it appends the bitmask 0 to the output.
C21_EmptyDescriptionsAccepted ==
    [][ (li' = li + 1 /\
         layouts[li + 1].mChannelLayoutTag = "UseChannelDescriptions" /\
         Len(layouts[li + 1].mChannelDescriptions) = 0)
          => bitmaps' = Append(bitmaps, 0) ]_vars

\* an empty Descriptions layout between two Bitmap layouts
C21_Witness ==
    /\ li = 3
    /\ layouts = << BitmapLayout(3), DescLayout(<<>>), BitmapLayout(63) >>
    /\ bitmaps = <<3, 0, 63>>

(***************************************************************************)
(* Properties of ca_disable_mixing / ca_enable_mixing (under SpecMix)      *)
(***************************************************************************)
WroteMixing(reqs) ==
    \E i \in DOMAIN reqs : reqs[i] = <<"CA_SET", "noErr">>

\* C22: ca_disable_mixing leaves changed = true exactly when the device has
\* the property, CA_SETTABLE succeeded and said writeable, and the CA_SET of
\* 0 succeeded; it is false on every other path, errors included, and then
\* the device's value is untouched.  ca_enable_mixing issues a hardware
\* request only when called with changed = true.  When the caller hands
\* disable's changed to enable, enable writes the property only if disable
\* wrote it.
C22_RestoreOnlyIfDisabled ==
    /\ [](mix_pc \in {"disabled", "enabled"} =>
            /\ mix_changed = "true" <=>
                  mix_dreq = << <<"HasProperty", "true">>,
                                <<"CA_SETTABLE", "true">>,
                                <<"CA_SET", "noErr">> >>
            /\ mix_changed = "true" => (mix_has /\ mix_derr = "noErr")
            /\ mix_changed \in {"true", "false"})
    /\ [](mix_pc = "disabled" /\ mix_changed = "true" => mix_val = 0)
    /\ [](mix_pc = "enabled" =>
            /\ mix_ereq # <<>> => mix_arg = "true"
            /\ mix_arg = "false" => mix_eerr = "noErr"
            /\ (mix_arg = mix_changed /\ WroteMixing(mix_ereq))
                  => WroteMixing(mix_dreq))
    /\ [][ /\ (mix_pc = "start" /\ mix_pc' = "disabled" /\
                mix_changed' # "true") => mix_val' = mix_val
           /\ (mix_pc = "disabled" /\ mix_pc' = "enabled" /\
                mix_arg' = mix_changed /\ mix_changed # "true")
                 => (mix_val' = mix_val /\ mix_ereq' = <<>>) ]_vars

\* disable wrote 0, enable was handed changed = true and wrote 1 back
C22_Witness ==
    /\ mix_pc = "enabled" /\ mix_changed = "true" /\ mix_arg = "true"
    /\ WroteMixing(mix_dreq) /\ WroteMixing(mix_ereq) /\ mix_val = 1

====
